---- MODULE Spec2Model ----
(***************************************************************************)
(* Model of the realtime (websocket) layer of the PlaceOS TypeScript       *)
(* client, src/src/realtime/functions.ts.                                  *)
(*                                                                         *)
(* The module-level variables of functions.ts are the VARIABLES below.     *)
(* JavaScript objects that have an identity (transports, promises,         *)
(* BehaviorSubjects, subscriptions) live in sequences and are referred to  *)
(* by their index; 0 stands for undefined.  The event loop is modelled by  *)
(* one action per macrotask (a caller's call, an inbound frame, a timer)   *)
(* and one action per promise continuation (microtask); macrotasks other   *)
(* than the caller's own calls wait until the microtask queue is empty.    *)
(* Handlers are operators from a state record to a state record so that a  *)
(* handler that calls another one is the composition the code performs.    *)
(***************************************************************************)
EXTENDS Integers, Sequences, FiniteSets, Bags, TLC

VARIABLES
    isMock,               \* collaborator isMock()
    token,                \* collaborator token() is truthy
    online,               \* collaborator isOnline()
    REQUEST_COUNT,        \* functions.ts:38
    websocket,            \* _websocket, functions.ts:40 (0 = undefined)
    requests,             \* _requests, functions.ts:42 (in insertion order)
    binding,              \* _binding, functions.ts:44 (key -> subject)
    observers,            \* _observers, functions.ts:46 (key -> subject)
    listeners,            \* _listeners, functions.ts:48 (key -> mock subscription)
    status,               \* _status, functions.ts:50
    keep_alive,           \* _keep_alive, functions.ts:53 (interval id, 0 = undefined)
    connection_attempts,  \* _connection_attempts, functions.ts:55
    health_check,         \* _health_check timer is armed, functions.ts:57
    transports,           \* every transport object created so far
    connects,             \* every promise returned by connect()
    promises,             \* every promise created by send()
    subjects,             \* every BehaviorSubject created for a binding
    watchers,             \* callers' subscriptions to binding streams
    timers,               \* outstanding setTimeout callbacks (a bag)
    microtasks,           \* promise continuations ready to run
    sent,                 \* command frames handed to a transport's next()
    pings,                \* number of 'ping' frames handed to a transport
    pinged,               \* the transport the last 'ping' was handed to
    intervals,            \* every setInterval made: TRUE until cleared
    props,                \* property values of the registered mock module
    propSubs,             \* subscriptions to the mock module's properties
    calls,                \* what each bind/unbind/execute/debug/ignore call returned
    received,             \* notify and stray frames delivered by the live transport
    refreshes,            \* calls of the collaborator refreshAuthority()
    http,                 \* what each HTTP request() was answered by
    answers,              \* the status the server answered each fetch with
    cleaned               \* "no", or since cleanupRealtime(): "quiet" / "active"

vars == <<isMock, token, online, REQUEST_COUNT, websocket, requests, binding,
          observers, listeners, status, keep_alive, connection_attempts,
          health_check, transports, connects, promises, subjects, watchers,
          timers, microtasks, sent, pings, pinged, intervals, props, propSubs,
          calls, received, refreshes, http, answers, cleaned>>

(***************************************************************************)
(* Bounds of the model.                                                    *)
(***************************************************************************)
MaxCalls == 2        \* calls of bind/unbind/execute/debug/ignore, live transport
MaxMockCalls == 3    \* the same, mock transport
MaxTransports == 2   \* transports connect() created and subscribed to
MaxIdle == 1         \* transports connect() created and left unsubscribed
MaxFrames == 3       \* notify frames / property changes
MaxWatchers == 2     \* subscriptions made by callers to binding streams
MaxPings == 2        \* 'ping' frames
MaxAttempts == 22    \* connect() attempts made while the network is offline
MaxHttp == 2         \* HTTP requests made

(***************************************************************************)
(* JavaScript values, tagged so that a string and the value it denotes     *)
(* differ: <<"str", "true">> is the text, <<"bool", "true">> the boolean.  *)
(***************************************************************************)
JNull == <<"null">>
JUndefined == <<"undefined">>
JTrue == <<"bool", "true">>
JFalse == <<"bool", "false">>
JStr(s) == <<"str", s>>

\* String(v): the text JSON.parse sees for a non-string argument
JSString(v) ==
    CASE v[1] = "str" -> v[2]
      [] v[1] = "bool" -> v[2]
      [] v[1] = "null" -> "null"
      [] OTHER -> "undefined"

\* JSON.parse over the texts of the model; Throws marks a SyntaxError
Throws == <<"throws">>
JSONparse(v) ==
    LET text == JSString(v)
    IN  CASE text = "true" -> JTrue
          [] text = "false" -> JFalse
          [] text = "null" -> JNull
          [] text = "\"on\"" -> JStr("on")
          [] OTHER -> Throws

(***************************************************************************)
(* Keys.                                                                   *)
(***************************************************************************)
\* functions.ts:124, 142, 370, 528
BindingKey(o) == o.sys \o "|" \o o.mod \o "_" \o ToString(o.index) \o "|" \o o.name

\* functions.ts:239
DedupKey(r) ==
    r.cmd \o "|" \o r.sys \o "|" \o r.mod \o ToString(r.index) \o "|" \o r.name

Meta(r) == [sys |-> r.sys, mod |-> r.mod, index |-> r.index, name |-> r.name]
NoMeta == [sys |-> "", mod |-> "", index |-> 0, name |-> ""]
NoRequest == [id |-> 0, cmd |-> "", sys |-> "", mod |-> "", index |-> 0,
              name |-> "", args |-> <<>>]

(***************************************************************************)
(* Frames: 'ping', 'pong', a command, or a PlaceResponse.                  *)
(***************************************************************************)
Frame(type, id, value, code, meta, req) ==
    [type |-> type, id |-> id, value |-> value, code |-> code, meta |-> meta,
     req |-> req]
PingFrame == Frame("ping", 0, JNull, "", NoMeta, NoRequest)
PongFrame == Frame("pong", 0, JNull, "", NoMeta, NoRequest)
CommandFrame(r) == Frame("cmd", r.id, JNull, "", NoMeta, r)
NotifyFrame(meta, v) == Frame("notify", 0, v, "", meta, NoRequest)
SuccessFrame(id, v) == Frame("success", id, v, "", NoMeta, NoRequest)
ErrorFrame(id, code) == Frame("error", id, JNull, code, NoMeta, NoRequest)
\* an object whose type the dispatcher does not know
UnknownFrame(id, meta, v) == Frame("unknown", id, v, "", meta, NoRequest)

(***************************************************************************)
(* Small helpers on sequences and maps.                                    *)
(***************************************************************************)
Min(S) == CHOOSE x \in S : \A y \in S : x <= y
Put(map, k, v) == [x \in DOMAIN map \cup {k} |-> IF x = k THEN v ELSE map[x]]
Drop(map, k) == [x \in DOMAIN map \ {k} |-> map[x]]
EmptyMap == [x \in {} |-> 0]

\* the state of the module as one record
St ==
    [isMock |-> isMock, token |-> token, online |-> online,
     REQUEST_COUNT |-> REQUEST_COUNT, websocket |-> websocket,
     requests |-> requests, binding |-> binding, observers |-> observers,
     listeners |-> listeners, status |-> status, keep_alive |-> keep_alive,
     connection_attempts |-> connection_attempts,
     health_check |-> health_check, transports |-> transports,
     connects |-> connects, promises |-> promises, subjects |-> subjects,
     watchers |-> watchers, timers |-> timers, microtasks |-> microtasks,
     sent |-> sent, pings |-> pings, pinged |-> pinged,
     intervals |-> intervals, props |-> props, propSubs |-> propSubs,
     calls |-> calls, received |-> received, refreshes |-> refreshes,
     http |-> http, answers |-> answers, cleaned |-> cleaned]

Commit(s) ==
    \E next \in {s} :
        /\ isMock' = next.isMock
        /\ token' = next.token
        /\ online' = next.online
        /\ REQUEST_COUNT' = next.REQUEST_COUNT
        /\ websocket' = next.websocket
        /\ requests' = next.requests
        /\ binding' = next.binding
        /\ observers' = next.observers
        /\ listeners' = next.listeners
        /\ status' = next.status
        /\ keep_alive' = next.keep_alive
        /\ connection_attempts' = next.connection_attempts
        /\ health_check' = next.health_check
        /\ transports' = next.transports
        /\ connects' = next.connects
        /\ promises' = next.promises
        /\ subjects' = next.subjects
        /\ watchers' = next.watchers
        /\ timers' = next.timers
        /\ microtasks' = next.microtasks
        /\ sent' = next.sent
        /\ pings' = next.pings
        /\ pinged' = next.pinged
        /\ intervals' = next.intervals
        /\ props' = next.props
        /\ propSubs' = next.propSubs
        /\ calls' = next.calls
        /\ received' = next.received
        /\ refreshes' = next.refreshes
        /\ http' = next.http
        /\ answers' = next.answers
        /\ cleaned' = next.cleaned

(***************************************************************************)
(* Binding registry.                                                       *)
(***************************************************************************)
\* new BehaviorSubject(null) stored under key, with its observable
\* functions.ts:126-129, 371-374
CreateBinding(s, key) ==
    IF key \in DOMAIN s.binding
    THEN s
    ELSE LET sid == Len(s.subjects) + 1
         IN  [s EXCEPT !.subjects = Append(@, [value |-> JNull]),
                       !.binding = Put(@, key, sid),
                       !.observers = Put(@, key, sid)]

\* a next() that hands the value on only while nobody has unsubscribed
SubjectNext_AllOrNone(s, sid, v) ==
    [s EXCEPT !.subjects[sid].value = v,
              !.watchers = [w \in DOMAIN @ |->
                  IF @[w].subject = sid
                       /\ \A u \in DOMAIN s.watchers :
                             s.watchers[u].subject = sid => s.watchers[u].active
                  THEN [@[w] EXCEPT !.log = Append(@, v)]
                  ELSE @[w]]]

\* BehaviorSubject.next: store the value and hand it to every subscriber
SubjectNext(s, sid, v) ==
    [s EXCEPT !.subjects[sid].value = v,
              !.watchers = [w \in DOMAIN @ |->
                  IF @[w].subject = sid /\ @[w].active
                  THEN [@[w] EXCEPT !.log = Append(@, v)]
                  ELSE @[w]]]

\* listen that makes a new stream on every call
listen_AlwaysCreates(s, binding_details) ==
    LET sid == Len(s.subjects) + 1
    IN  [s EXCEPT !.subjects = Append(@, [value |-> JNull]),
                  !.binding = Put(@, BindingKey(binding_details), sid),
                  !.observers = Put(@, BindingKey(binding_details), sid)]

\* functions.ts:118-131; the stream returned is observers[key]
listen(s, binding_details) == CreateBinding(s, BindingKey(binding_details))

\* functions.ts:137-147
value(s, options) ==
    IF BindingKey(options) \in DOMAIN s.binding
    THEN s.subjects[s.binding[BindingKey(options)]].value
    ELSE JUndefined

\* handleNotify that publishes a value only when it differs from the current one
handleNotify_SkipsRepeats(s, options, updated_value) ==
    LET s1 == CreateBinding(s, BindingKey(options))
        sid == s1.binding[BindingKey(options)]
    IN  IF s1.subjects[sid].value = updated_value
        THEN s1
        ELSE SubjectNext(s1, sid, updated_value)

\* functions.ts:364-378
handleNotify(s, options, updated_value) ==
    LET s1 == CreateBinding(s, BindingKey(options))
    IN  SubjectNext(s1, s1.binding[BindingKey(options)], updated_value)

(***************************************************************************)
(* Request multiplexer: settling pending requests.                         *)
(***************************************************************************)
\* the first record, in Object.keys order, whose id is the frame's id
FindRequest(s, id) ==
    LET found == {i \in 1..Len(s.requests) : s.requests[i].id = id}
    IN  IF found = {} THEN 0 ELSE Min(found)

\* delete _requests[key]
DeleteRequest(s, key) ==
    [s EXCEPT !.requests = SelectSeq(@, LAMBDA r : r.key # key)]

Settle(s, p, how, v) ==
    [s EXCEPT !.promises[p] = [@ EXCEPT !.state = how, !.value = v]]

\* handleSuccess with the record left in the map
handleSuccess_KeepsRecord(s, message) ==
    LET i == FindRequest(s, message.id)
    IN  IF i # 0 /\ s.requests[i].resolve
        THEN Settle(s, s.requests[i].promise, "resolved", message.value)
        ELSE s

\* functions.ts:308-318
handleSuccess(s, message) ==
    LET i == FindRequest(s, message.id)
    IN  IF i # 0 /\ s.requests[i].resolve
        THEN DeleteRequest(
                 Settle(s, s.requests[i].promise, "resolved", message.value),
                 s.requests[i].key)
        ELSE s

\* functions.ts:324-357; the promise is rejected with the frame itself
handleError(s, message) ==
    LET i == FindRequest(s, message.id)
    IN  IF i # 0 /\ s.requests[i].resolve
        THEN DeleteRequest(
                 Settle(s, s.requests[i].promise, "rejected",
                        <<"error", message.code, ToString(message.id)>>),
                 s.requests[i].key)
        ELSE s

(***************************************************************************)
(* Message dispatcher.                                                     *)
(***************************************************************************)
\* onMessage that takes any other object as the answer to the request it names
onMessage_SettlesStray(s, message) ==
    CASE message.type = "notify" /\ message.meta # NoMeta ->
            handleNotify(s, message.meta,
                         IF JSONparse(message.value) = Throws
                         THEN message.value
                         ELSE JSONparse(message.value))
      [] message.type = "success" -> handleSuccess(s, message)
      [] message.type = "error" -> handleError(s, message)
      [] OTHER -> handleSuccess(s, message)

\* onMessage that drops a notify frame whose value does not parse
onMessage_DropsUnparsed(s, message) ==
    CASE message.type = "notify" /\ message.meta # NoMeta ->
            IF JSONparse(message.value) = Throws
            THEN s
            ELSE handleNotify(s, message.meta, JSONparse(message.value))
      [] message.type = "success" -> handleSuccess(s, message)
      [] message.type = "error" -> handleError(s, message)
      [] OTHER -> s

\* functions.ts:272-302
onMessage(s, message) ==
    CASE message.type = "notify" /\ message.meta # NoMeta ->
            handleNotify(s, message.meta,
                         IF JSONparse(message.value) = Throws
                         THEN message.value
                         ELSE JSONparse(message.value))
      [] message.type = "success" -> handleSuccess(s, message)
      [] message.type = "error" -> handleError(s, message)
      [] OTHER -> s

(***************************************************************************)
(* Connection manager.                                                     *)
(*                                                                         *)
(* A transport is "idle" (created, never subscribed by connect), "open"    *)
(* (subscribed by connect), "closing" (a live socket after complete():     *)
(* the browser delivers no further message, the completion callback is     *)
(* still to come) or "done".  conn is the connect() promise whose resolve  *)
(* the subscription holds.                                                 *)
(***************************************************************************)
NewTransport(s) ==
    [s EXCEPT !.transports =
                  Append(@, [mock |-> s.isMock, state |-> "idle", conn |-> 0]),
              !.websocket = Len(s.transports) + 1]

\* resolve() of the promise returned by connect(): its continuation, if it
\* has one, becomes a microtask; resolving again does nothing
ResolveConnect(s, c) ==
    IF s.connects[c].resolved
    THEN s
    ELSE [s EXCEPT !.connects[c].resolved = TRUE,
                   !.microtasks = IF s.connects[c].cont = NoRequest
                                  THEN @
                                  ELSE Append(@, [req |-> s.connects[c].cont,
                                                  promise |-> s.connects[c].promise])]

\* functions.ts:501-506
clearHealthCheck(s) == [s EXCEPT !.health_check = FALSE]

\* clearInterval(id): an id that is undefined or already cleared does nothing
clearInterval(s, id) == IF id = 0 THEN s ELSE [s EXCEPT !.intervals[id] = FALSE]

\* _keep_alive = setInterval(() => ping(), ...), functions.ts:408
setKeepAlive(s) ==
    [s EXCEPT !.intervals = Append(@, TRUE), !.keep_alive = Len(s.intervals) + 1]

\* the interval _keep_alive names is running
KeepAliveOn(s) == s.keep_alive # 0 /\ s.intervals[s.keep_alive]

\* the next-handler of connect() leaving the health check running
OnNext_KeepsHealthCheck(s, t, resp) ==
    LET s1 == IF ~s.status
              THEN [ResolveConnect(s, s.transports[t].conn) EXCEPT !.status = TRUE]
              ELSE s
        s2 == [s1 EXCEPT !.connection_attempts = 0]
    IN  onMessage(s2, resp)

\* the next-handler connect() subscribes with, functions.ts:389-397
OnNext(s, t, resp) ==
    LET s1 == IF ~s.status
              THEN [ResolveConnect(s, s.transports[t].conn) EXCEPT !.status = TRUE]
              ELSE s
        s2 == [s1 EXCEPT !.connection_attempts = 0]
    IN  onMessage(clearHealthCheck(s2), resp)

\* a complete-handler that schedules a reconnect of its own
OnComplete_Reconnects(s) ==
    [s EXCEPT !.status = FALSE,
              !.timers = @ (+) SetToBag({[kind |-> "reconnect", conn |-> 0,
                                          tries |-> 0, delay |-> 1000,
                                          req |-> NoRequest, ws |-> 0,
                                          value |-> JNull, code |-> ""]})]

\* the complete-handler connect() subscribes with, functions.ts:402
OnComplete(s) == [s EXCEPT !.status = FALSE]

\* transport.next(frame).  A live transport puts the frame on the wire.  The
\* mock transport is a Subject: it hands the frame to its own subscriber
\* (functions.ts:513-515) and then to connect's subscriber, unless stopped.
WsNext(s, t, frame) ==
    LET s1 == CASE frame.type = "ping" ->
                      [s EXCEPT !.pings = @ + 1, !.pinged = t]
                [] frame.type = "cmd" ->
                      [s EXCEPT !.sent = Append(@, [ws |-> t, req |-> frame.req])]
                [] OTHER -> s
    IN  IF ~s.transports[t].mock \/ s.transports[t].state = "done"
        THEN s1
        ELSE LET s2 == onMessage(s1, frame)
             IN  IF s.transports[t].state = "open"
                 THEN OnNext(s2, t, frame)
                 ELSE s2

\* functions.ts:478-480
ping(s) == WsNext(s, s.websocket, PingFrame)

\* transport.complete()
Complete(s, t) ==
    CASE s.transports[t].state = "done" -> s
      [] s.transports[t].state = "idle" ->
            [s EXCEPT !.transports[t].state = "done"]
      [] s.transports[t].mock ->
            IF s.transports[t].state = "open"
            THEN OnComplete([s EXCEPT !.transports[t].state = "done"])
            ELSE [s EXCEPT !.transports[t].state = "done"]
      [] OTHER -> [s EXCEPT !.transports[t].state = "closing"]

NoTimer == [kind |-> "", conn |-> 0, tries |-> 0, delay |-> 0,
            req |-> NoRequest, ws |-> 0, value |-> JNull, code |-> ""]

AddTimer(s, tm) == [s EXCEPT !.timers = @ (+) SetToBag({tm})]

\* the retry delay without its cap
RetryDelay_Uncapped(tries) == 300 * tries

RetryDelay(tries) == 300 * (IF tries < 20 THEN tries ELSE 20)

\* the executor of connect(tries) asking for a token on the mock transport too
connectBody_NeedsToken(s, c, tries) ==
    LET s1 == NewTransport([s EXCEPT !.connection_attempts = @ + 1])
        t == s1.websocket
    IN  IF s.token /\ s.online
        THEN LET s2 == [s1 EXCEPT !.transports[t].state = "open",
                                  !.transports[t].conn = c]
                 s3 == setKeepAlive(ping(clearInterval(s2, s2.keep_alive)))
             IN  [clearHealthCheck(s3) EXCEPT !.health_check = TRUE]
        ELSE AddTimer(s1, [NoTimer EXCEPT !.kind = "retry", !.conn = c,
                                          !.tries = tries + 1,
                                          !.delay = RetryDelay(tries + 1)])

\* the executor of connect(tries) starting a keep-alive interval without
\* cancelling the one running
connectBody_KeepsInterval(s, c, tries) ==
    LET s1 == NewTransport([s EXCEPT !.connection_attempts = @ + 1])
        t == s1.websocket
    IN  IF (s.token \/ s.isMock) /\ s.online
        THEN LET s2 == [s1 EXCEPT !.transports[t].state = "open",
                                  !.transports[t].conn = c]
                 s3 == setKeepAlive(ping(s2))
             IN  [clearHealthCheck(s3) EXCEPT !.health_check = TRUE]
        ELSE AddTimer(s1, [NoTimer EXCEPT !.kind = "retry", !.conn = c,
                                          !.tries = tries + 1,
                                          !.delay = RetryDelay(tries + 1)])

\* the executor of connect(tries), functions.ts:385-421, run for the promise
\* c: a retry (functions.ts:420) resolves the promise of the call it retries
connectBody(s, c, tries) ==
    LET s1 == NewTransport([s EXCEPT !.connection_attempts = @ + 1])
        t == s1.websocket
    IN  IF (s.token \/ s.isMock) /\ s.online
        THEN LET s2 == [s1 EXCEPT !.transports[t].state = "open",
                                  !.transports[t].conn = c]
                 s3 == setKeepAlive(ping(clearInterval(s2, s2.keep_alive)))
             IN  [clearHealthCheck(s3) EXCEPT !.health_check = TRUE]
        ELSE AddTimer(s1, [NoTimer EXCEPT !.kind = "retry", !.conn = c,
                                          !.tries = tries + 1,
                                          !.delay = RetryDelay(tries + 1)])

\* functions.ts:383-423; cont is the request a send() resubmits when the
\* promise resolves (functions.ts:254-260) and promise the one it then settles
connect(s, cont, promise) ==
    connectBody([s EXCEPT !.connects =
                     Append(@, [resolved |-> FALSE, cont |-> cont,
                                promise |-> promise])],
                Len(s.connects) + 1, 0)

ReconnectDelay(attempts) ==
    LET d == IF attempts * 300 = 0 THEN 1000 ELSE attempts * 300
    IN  IF d < 5000 THEN d ELSE 5000

\* reconnect that drops the requests in flight with the old socket
reconnect_ClearsRequests(s) ==
    LET s1 == IF s.websocket # 0
              THEN LET s0 == Complete(s, s.websocket)
                   IN  [clearInterval(s0, s0.keep_alive) EXCEPT !.keep_alive = 0]
              ELSE s
    IN  AddTimer([s1 EXCEPT !.requests = <<>>],
                 [NoTimer EXCEPT !.kind = "reconnect",
                     !.delay = ReconnectDelay(s1.connection_attempts)])

\* reconnect that leaves the keep-alive interval running
reconnect_KeepsKeepAlive(s) ==
    LET s1 == IF s.websocket # 0 THEN Complete(s, s.websocket) ELSE s
    IN  AddTimer(s1, [NoTimer EXCEPT !.kind = "reconnect",
                         !.delay = ReconnectDelay(s1.connection_attempts)])

\* functions.ts:462-473 (is_connected, not called, is always truthy)
reconnect(s) ==
    LET s1 == IF s.websocket # 0
              THEN LET s0 == Complete(s, s.websocket)
                   IN  [clearInterval(s0, s0.keep_alive) EXCEPT !.keep_alive = 0]
              ELSE s
    IN  AddTimer(s1, [NoTimer EXCEPT !.kind = "reconnect",
                         !.delay = ReconnectDelay(s1.connection_attempts)])

\* onWebSocketError that fails the requests in flight with the socket
onWebSocketError_RejectsPending(s, err) ==
    LET s1 == [s EXCEPT !.status = FALSE,
                        !.promises = [p \in DOMAIN @ |->
                            IF \E i \in 1..Len(s.requests) :
                                   s.requests[i].promise = p /\ s.requests[i].resolve
                            THEN [@[p] EXCEPT !.state = "rejected"]
                            ELSE @[p]],
                        !.requests = SelectSeq(@, LAMBDA r : ~r.resolve)]
        s2 == IF err = 401 THEN [s1 EXCEPT !.token = FALSE] ELSE s1
    IN  reconnect([s2 EXCEPT !.refreshes = @ + 1])

\* onWebSocketError invalidating the token whatever the status
onWebSocketError_AlwaysInvalidates(s, err) ==
    LET s1 == [s EXCEPT !.status = FALSE, !.token = FALSE]
    IN  reconnect([s1 EXCEPT !.refreshes = @ + 1])

\* functions.ts:486-496
onWebSocketError(s, err) ==
    LET s1 == [s EXCEPT !.status = FALSE]
        s2 == IF err = 401 THEN [s1 EXCEPT !.token = FALSE] ELSE s1
    IN  reconnect([s2 EXCEPT !.refreshes = @ + 1])

(***************************************************************************)
(* Mock transport.  The registry of mock systems and the mock module class *)
(* (mock.ts, mock-module.ts) are modelled from their documentation: one    *)
(* system "sys-1" holding module "Mod" with one instance, whose properties *)
(* are BehaviorSubjects and whose methods are power_on and power_off.      *)
(***************************************************************************)
MockSystemId == "sys-1"
MockModuleName == "Mod"

\* mockSystem(id): whether a system is registered under id
mockSystem(sys) == sys = MockSystemId

\* system[mod][index - 1 || 0] names the one registered instance
mockModule(request) ==
    /\ request.mod = MockModuleName
    /\ (IF request.index - 1 = 0 THEN 0 ELSE request.index - 1) = 0

\* the property's BehaviorSubject emits: every live subscription made by
\* handleMockSend schedules its notify frame, functions.ts:535-546
PropertyNext(s, name, v) ==
    LET subs == {i \in 1..Len(s.propSubs) :
                    s.propSubs[i].name = name /\ s.propSubs[i].active}
        Notify(i) == [NoTimer EXCEPT !.kind = "notify",
                                     !.req = s.propSubs[i].req,
                                     !.ws = s.propSubs[i].ws, !.value = v]
        new == [tm \in {Notify(i) : i \in subs} |->
                   Cardinality({i \in subs : Notify(i) = tm})]
    IN  [s EXCEPT !.props = Put(@, name, v), !.timers = @ (+) new]

\* module.listen(name): the property's stream, created with null if absent
moduleListen(s, name) ==
    IF name \in DOMAIN s.props THEN s ELSE [s EXCEPT !.props = Put(@, name, JNull)]

\* module.call(name, args): run the method $name; <<state, result>>
moduleCall(s, name, args) ==
    CASE name = "power_off" -> <<PropertyNext(s, "power", JFalse), JUndefined>>
      [] name = "power_on" -> <<PropertyNext(s, "power", JTrue), JUndefined>>
      [] OTHER -> <<s, JNull>>

\* functions.ts:523-576
handleMockSend(s, request, ws) ==
    LET key == BindingKey(request)
        system == mockSystem(request.sys)
        module == system /\ mockModule(request)
        s1 == CASE module /\ request.cmd = "bind" ->
                    LET s0 == moduleListen(s, request.name)
                        sub == Len(s0.propSubs) + 1
                    IN  [s0 EXCEPT
                            !.propSubs = Append(@, [name |-> request.name,
                                req |-> request, ws |-> ws, active |-> TRUE]),
                            !.listeners = Put(@, key, sub),
                            !.timers = @ (+) SetToBag({[NoTimer EXCEPT
                                !.kind = "notify", !.req = request, !.ws = ws,
                                !.value = s0.props[request.name]]})]
                [] module /\ request.cmd = "unbind" /\ key \in DOMAIN s.listeners ->
                    [s EXCEPT !.propSubs[s.listeners[key]].active = FALSE,
                              !.listeners = Drop(@, key)]
                [] OTHER -> s
    IN  IF module
        THEN AddTimer(s1, [NoTimer EXCEPT !.kind = "response",
                                          !.req = request, !.ws = ws])
        ELSE AddTimer(s1, [NoTimer EXCEPT !.kind = "mockerror",
                              !.req = request, !.ws = ws,
                              !.code = IF system THEN "SYS_NOT_FOUND"
                                                 ELSE "MOD_NOT_FOUND"])

(***************************************************************************)
(* Request multiplexer: sending.                                           *)
(***************************************************************************)
HasRequest(s, key) == \E i \in 1..Len(s.requests) : s.requests[i].key = key
RequestOf(s, key) ==
    s.requests[CHOOSE i \in 1..Len(s.requests) : s.requests[i].key = key]

NewPromise(s) ==
    [s EXCEPT !.promises = Append(@, [state |-> "pending", value |-> JNull,
                                      follows |-> 0])]

Record(request, key, promise, resolve) ==
    [id |-> request.id, cmd |-> request.cmd, sys |-> request.sys,
     mod |-> request.mod, index |-> request.index, name |-> request.name,
     args |-> request.args, key |-> key, promise |-> promise,
     resolve |-> resolve]

\* the executor of the promise of a new record and the record's insertion,
\* functions.ts:242-263
sendNew(s, request) ==
    LET key == DedupKey(request)
        p == Len(s.promises) + 1
        s1 == NewPromise(s)
    IN  IF s.websocket # 0 /\ s.status
        THEN LET s2 == IF s.isMock
                       THEN handleMockSend(s1, request, s.websocket)
                       ELSE s1
                 s3 == WsNext(s2, s.websocket, CommandFrame(request))
             IN  [s3 EXCEPT !.requests =
                     Append(@, Record(request, key, p, TRUE))]
        ELSE LET s2 == connect(s1, request, p)
             IN  [s2 EXCEPT !.requests =
                     Append(@, Record(request, key, p, FALSE))]

\* send that replaces a pending record instead of reusing it
send_NoDedup(s, request) ==
    sendNew(DeleteRequest(s, DedupKey(request)), request)

\* functions.ts:238-266; the result is the state after the call, the promise
\* returned being that of the record stored under the request's key
send(s, request) ==
    IF HasRequest(s, DedupKey(request)) THEN s ELSE sendNew(s, request)

\* resend that leaves the stale record in place
resend_KeepsStale(s, request, p) ==
    LET s1 == send(s, request)
    IN  [s1 EXCEPT !.promises[p].follows =
            RequestOf(s1, DedupKey(request)).promise]

\* the continuation of functions.ts:254-260 for the promise p of the stale
\* record: delete it, send again, and settle p as the new promise settles
resend(s, request, p) ==
    LET s1 == send(DeleteRequest(s, DedupKey(request)), request)
    IN  [s1 EXCEPT !.promises[p].follows =
            RequestOf(s1, DedupKey(request)).promise]

\* command that takes a fresh id only when it creates a record: a call that
\* finds its key pending carries the pending request's id
command_SharesId(s, cmd, options, args) ==
    LET probe == [cmd |-> cmd, sys |-> options.sys, mod |-> options.mod,
                  index |-> options.index, name |-> options.name]
        shared == HasRequest(s, DedupKey(probe))
        request == [id |-> IF shared THEN RequestOf(s, DedupKey(probe)).id
                           ELSE s.REQUEST_COUNT + 1,
                    cmd |-> cmd, sys |-> options.sys, mod |-> options.mod,
                    index |-> options.index, name |-> options.name,
                    args |-> args]
        s1 == send(IF shared THEN s ELSE [s EXCEPT !.REQUEST_COUNT = @ + 1],
                   request)
    IN  [s1 EXCEPT !.calls =
            Append(@, [req |-> request,
                       promise |-> RequestOf(s1, DedupKey(request)).promise])]

\* bind, unbind, execute, debug, ignore: functions.ts:153-232
command(s, cmd, options, args) ==
    LET request == [id |-> s.REQUEST_COUNT + 1, cmd |-> cmd,
                    sys |-> options.sys, mod |-> options.mod,
                    index |-> options.index, name |-> options.name,
                    args |-> args]
        s1 == send([s EXCEPT !.REQUEST_COUNT = @ + 1], request)
    IN  [s1 EXCEPT !.calls =
            Append(@, [req |-> request,
                       promise |-> RequestOf(s1, DedupKey(request)).promise])]

\* cleanupRealtime that leaves the bindings and their observables in place
cleanupRealtime_KeepsBindings(s) ==
    [s EXCEPT !.websocket = 0,
              !.REQUEST_COUNT = 0,
              !.listeners = EmptyMap,
              !.requests = <<>>,
              !.status = FALSE,
              !.intervals = IF s.keep_alive = 0 THEN @
                            ELSE [@ EXCEPT ![s.keep_alive] = FALSE],
              !.health_check = FALSE]

\* functions.ts:67-94 (observers holds the binding streams only; the status
\* stream it is given back at functions.ts:80 is not modelled)
cleanupRealtime(s) ==
    [s EXCEPT !.websocket = 0,
              !.REQUEST_COUNT = 0,
              !.binding = EmptyMap,
              !.observers = EmptyMap,
              !.listeners = EmptyMap,
              !.requests = <<>>,
              !.status = FALSE,
              !.intervals = IF s.keep_alive = 0 THEN @
                            ELSE [@ EXCEPT ![s.keep_alive] = FALSE],
              !.health_check = FALSE]

(***************************************************************************)
(* HTTP requests (http/functions.ts).  The registry of mock handlers        *)
(* (http/mock.ts) is modelled from the README: handlers are registered for *)
(* a method and a path, and mockRequest returns the handler's response or  *)
(* null when none is registered.                                           *)
(***************************************************************************)
HttpVerbs == {"GET", "POST", "PUT", "PATCH", "DELETE"}
SystemsUrl == "/api/engine/v2/systems"
ZonesUrl == "/api/engine/v2/zones"
HttpUrls == {SystemsUrl, ZonesUrl}

\* PlaceHttpMock.register(...) done by the application
MockHandlers == {<<"GET", SystemsUrl>>, <<"POST", SystemsUrl>>}
MockResponse(method, url) == <<"mock", method, url>>
NoResponse == <<"null">>

\* mockRequest(method, url): the response of the handler, or null
mockRequest(method, url) ==
    IF <<method, url>> \in MockHandlers THEN MockResponse(method, url)
                                         ELSE NoResponse

NoHeaders == [Authorization |-> <<"none">>, ContentType |-> ""]

\* request that never reaches the network in mock mode
request_MockOnly(s, method, url) ==
    IF s.isMock
    THEN [s EXCEPT !.http = Append(@, [method |-> method, url |-> url,
                                       via |-> "mock",
                                       response |-> mockRequest(method, url),
                                       headers |-> NoHeaders])]
    ELSE [s EXCEPT !.http = Append(@, [method |-> method, url |-> url,
                            via |-> "fetch", response |-> NoResponse,
                            headers |-> [Authorization |-> <<"Bearer", s.token>>,
                                         ContentType |-> "application/json"]])]

\* http/functions.ts:196-232, for options without headers, up to the call of
\* fromFetch; the pipe attached to the fetch is respond below
request(s, method, url) ==
    IF s.isMock /\ mockRequest(method, url) # NoResponse
    THEN [s EXCEPT !.http = Append(@, [method |-> method, url |-> url,
                                       via |-> "mock",
                                       response |-> mockRequest(method, url),
                                       headers |-> NoHeaders])]
    ELSE [s EXCEPT !.http = Append(@, [method |-> method, url |-> url,
                            via |-> "fetch", response |-> NoResponse,
                            headers |-> [Authorization |-> <<"Bearer", s.token>>,
                                         ContentType |-> "application/json"]])]

HttpStatuses == {200, 401, 500}

\* http/functions.ts:169-172
reloadAuth(s) == [s EXCEPT !.token = FALSE, !.refreshes = @ + 1]

\* http/functions.ts:178-187: the error handed to the subscriber is not part
\* of the state
onError(s, code) == IF code = 401 THEN reloadAuth(s) ELSE s

\* the pipe of http/functions.ts:219-231 run for the response to fetch i: a
\* response that is ok goes to transform, whose map of response headers is
\* not part of the state, any other to onError
respond(s, i, code) ==
    LET s1 == [s EXCEPT !.answers = Put(@, i, code)]
    IN  IF code = 200 THEN s1 ELSE onError(s1, code)

(***************************************************************************)
(* What callers and the environment may do.                                *)
(***************************************************************************)
Power == [sys |-> "sys-1", mod |-> "Mod", index |-> 1, name |-> "power"]
PowerOff == [sys |-> "sys-1", mod |-> "Mod", index |-> 1, name |-> "power_off"]
WireValues == {JStr("true"), JStr("false")}
ResultValues == {JStr("ok")}
ErrorCodes == {"SYS_NOT_FOUND"}
ErrorStatuses == {401, 500}

Connected(s) == s.websocket # 0 /\ s.status
Idle == microtasks = <<>>

\* whether one more connect() can be taken within the bounds of the model
Unsubscribed ==
    Cardinality({t \in 1..Len(transports) : transports[t].state = "idle"})
CanConnect ==
    IF ~online
    THEN connection_attempts < MaxAttempts
    ELSE /\ Len(transports) < MaxTransports + MaxIdle
         /\ IF token \/ isMock
            THEN Len(transports) - Unsubscribed < MaxTransports
            ELSE Unsubscribed < MaxIdle

\* whether the call can be taken within the bounds of the model
CanCall(cmd, options) ==
    /\ Len(calls) < (IF isMock THEN MaxMockCalls ELSE MaxCalls)
    /\ \/ HasRequest(St, DedupKey([cmd |-> cmd] @@ options))
       \/ Connected(St)
       \/ CanConnect

Called(s) == [s EXCEPT !.cleaned = IF @ = "quiet" THEN "active" ELSE @]

Bind(options) ==
    /\ CanCall("bind", options)
    /\ Commit(Called(command(St, "bind", options, <<>>)))

Unbind(options) ==
    /\ CanCall("unbind", options)
    /\ Commit(Called(command(St, "unbind", options, <<>>)))

Execute(options, args) ==
    /\ CanCall("exec", options)
    /\ Commit(Called(command(St, "exec", options, args)))

Debug(options) ==
    /\ CanCall("debug", options)
    /\ Commit(Called(command(St, "debug", options, <<>>)))

Ignore(options) ==
    /\ CanCall("ignore", options)
    /\ Commit(Called(command(St, "ignore", options, <<>>)))

\* listen(options).subscribe(...): a BehaviorSubject hands its current value
\* to the new subscriber at once
Listen(options) ==
    /\ Len(watchers) < MaxWatchers
    /\ LET s1 == listen(St, options)
           key == BindingKey(options)
           sid == s1.observers[key]
       IN  Commit([s1 EXCEPT !.watchers =
               Append(@, [subject |-> sid, key |-> key, active |-> TRUE,
                          log |-> <<s1.subjects[sid].value>>,
                          after |-> Cardinality({i \in 1..Len(received) :
                                       BindingKey(received[i].meta) = key})])])

\* a caller unsubscribes the subscription it made to the stream of listen()
Unsubscribe(w) ==
    /\ w \in 1..Len(watchers)
    /\ watchers[w].active
    /\ Commit([St EXCEPT !.watchers[w].active = FALSE])

\* an inbound frame on a live transport connect() subscribed to
Inbound(t, frame) ==
    /\ Idle
    /\ t \in 1..Len(transports)
    /\ ~transports[t].mock
    /\ transports[t].state = "open"
    /\ Commit(OnNext(St, t, frame))

ServerPong(t) == Inbound(t, PongFrame)

ServerNotify(t, meta, v) ==
    /\ Len(received) < MaxFrames
    /\ Idle
    /\ t \in 1..Len(transports)
    /\ ~transports[t].mock
    /\ transports[t].state = "open"
    /\ Commit([OnNext(St, t, NotifyFrame(meta, v)) EXCEPT
                  !.received = Append(@, NotifyFrame(meta, v))])

\* frames the dispatcher has no handler for: a notify frame without meta, an
\* object of unknown type naming the latest request and an identity, and the
\* echo of the command frame sent last
StrayFrames ==
    {NotifyFrame(NoMeta, JStr("true"))}
        \cup {UnknownFrame(id, Power, JStr("true")) : id \in {REQUEST_COUNT} \ {0}}
        \cup {CommandFrame(sent[i].req) : i \in {Len(sent)} \ {0}}

ServerStray(t, frame) ==
    /\ Len(received) < MaxFrames
    /\ frame \in StrayFrames
    /\ Idle
    /\ t \in 1..Len(transports)
    /\ ~transports[t].mock
    /\ transports[t].state = "open"
    /\ Commit([OnNext(St, t, frame) EXCEPT !.received = Append(@, frame)])

\* the server answers a command it was sent on this transport
SentOn(t) == {sent[i].req.id : i \in {j \in 1..Len(sent) : sent[j].ws = t}}

ServerSuccess(t, id, v) ==
    /\ id \in SentOn(t)
    /\ Inbound(t, SuccessFrame(id, v))

ServerError(t, id, code) ==
    /\ id \in SentOn(t)
    /\ Inbound(t, ErrorFrame(id, code))

\* the error-handler connect() subscribes with, functions.ts:398-401
TransportError(t, err) ==
    /\ Idle
    /\ t \in 1..Len(transports)
    /\ ~transports[t].mock
    /\ transports[t].state = "open"
    /\ Commit(onWebSocketError(
           clearHealthCheck([St EXCEPT !.transports[t].state = "done"]), err))

\* the socket closes cleanly, by itself or after complete()
TransportComplete(t) ==
    /\ Idle
    /\ t \in 1..Len(transports)
    /\ ~transports[t].mock
    /\ transports[t].state \in {"open", "closing"}
    /\ Commit(OnComplete([St EXCEPT !.transports[t].state = "done"]))

\* the 30 s timer of functions.ts:410-414.  On the mock transport the 20 s
\* keep-alive ping comes back as an inbound frame and clears it first.
HealthCheckTimeout ==
    /\ Idle
    /\ health_check
    /\ ~(KeepAliveOn(St) /\ websocket # 0 /\ transports[websocket].mock
            /\ transports[websocket].state = "open")
    /\ Commit(reconnect([St EXCEPT !.health_check = FALSE, !.status = FALSE]))

\* the interval of functions.ts:408
KeepAliveTick ==
    /\ Idle
    /\ \E i \in 1..Len(intervals) : intervals[i]
    /\ websocket # 0
    /\ pings < MaxPings
    /\ Commit(ping(St))

Pending(tm, kind) == BagIn(tm, timers) /\ tm.kind = kind
Fired(tm) == [St EXCEPT !.timers = @ (-) SetToBag({tm})]

\* functions.ts:472
ReconnectTimer(tm) ==
    /\ Idle
    /\ Pending(tm, "reconnect")
    /\ CanConnect
    /\ Commit(connect(Fired(tm), NoRequest, 0))

\* functions.ts:420
RetryTimer(tm) ==
    /\ Idle
    /\ Pending(tm, "retry")
    /\ CanConnect
    /\ Commit(connectBody(Fired(tm), tm.conn, tm.tries))

\* the response of functions.ts:556-563 without the call of the method
MockResponseTimer_NoCall(tm) ==
    /\ Idle
    /\ Pending(tm, "response")
    /\ Commit(WsNext(Fired(tm), tm.ws, SuccessFrame(tm.req.id, JNull)))

\* the response of functions.ts:556-563 calling the method for every verb
MockResponseTimer_CallsAlways(tm) ==
    /\ Idle
    /\ Pending(tm, "response")
    /\ LET r == moduleCall(Fired(tm), tm.req.name, tm.req.args)
       IN  Commit(WsNext(r[1], tm.ws, SuccessFrame(tm.req.id, r[2])))

\* functions.ts:556-563
MockResponseTimer(tm) ==
    /\ Idle
    /\ Pending(tm, "response")
    /\ LET r == IF tm.req.cmd = "exec"
                THEN moduleCall(Fired(tm), tm.req.name, tm.req.args)
                ELSE <<Fired(tm), JNull>>
       IN  Commit(WsNext(r[1], tm.ws, SuccessFrame(tm.req.id, r[2])))

\* functions.ts:566-574
MockErrorTimer(tm) ==
    /\ Idle
    /\ Pending(tm, "mockerror")
    /\ Commit(WsNext(Fired(tm), tm.ws, ErrorFrame(tm.req.id, tm.code)))

\* functions.ts:536-545
MockNotifyTimer(tm) ==
    /\ Idle
    /\ Pending(tm, "notify")
    /\ Commit(WsNext(Fired(tm), tm.ws, NotifyFrame(Meta(tm.req), tm.value)))

\* the continuation of connect().then in send
Microtask ==
    /\ microtasks # <<>>
    /\ Connected(St) \/ CanConnect
    /\ Commit(resend([St EXCEPT !.microtasks = Tail(@)],
                     Head(microtasks).req, Head(microtasks).promise))

\* code outside the library assigns a property of the mock module
MockSetProperty(name, v) ==
    /\ Idle
    /\ BagCardinality(timers) < MaxFrames
    /\ Commit(PropertyNext(St, name, v))

\* the authority hands out a token again
TokenRefresh ==
    /\ Idle
    /\ ~token
    /\ Commit([St EXCEPT !.token = TRUE])

\* get, post, put, patch or del subscribed to by the caller
HttpRequest(method, url) ==
    /\ Len(http) < MaxHttp
    /\ Commit(request(St, method, url))

\* the server answers the fetch of request i, once
HttpAnswer(i, code) ==
    /\ Idle
    /\ i \in 1..Len(http)
    /\ http[i].via = "fetch"
    /\ i \notin DOMAIN answers
    /\ Commit(respond(St, i, code))

\* the network is reported online again
NetworkOnline ==
    /\ Idle
    /\ ~online
    /\ Commit([St EXCEPT !.online = TRUE])

Cleanup ==
    /\ Commit([cleanupRealtime(St) EXCEPT !.cleaned = "quiet"])

(***************************************************************************)
(* Specifications.                                                         *)
(***************************************************************************)
Init0 ==
    /\ REQUEST_COUNT = 0
    /\ websocket = 0
    /\ requests = <<>>
    /\ binding = EmptyMap
    /\ observers = EmptyMap
    /\ listeners = EmptyMap
    /\ status = FALSE
    /\ keep_alive = 0
    /\ connection_attempts = 0
    /\ health_check = FALSE
    /\ transports = <<>>
    /\ connects = <<>>
    /\ promises = <<>>
    /\ subjects = <<>>
    /\ watchers = <<>>
    /\ timers = EmptyBag
    /\ microtasks = <<>>
    /\ sent = <<>>
    /\ pings = 0
    /\ pinged = 0
    /\ intervals = <<>>
    /\ props = [power |-> JTrue]
    /\ propSubs = <<>>
    /\ calls = <<>>
    /\ received = <<>>
    /\ refreshes = 0
    /\ http = <<>>
    /\ answers = EmptyMap
    /\ cleaned = "no"

\* the live transport; the token may still be missing when the first command
\* is issued
Init == Init0 /\ online = TRUE /\ isMock = FALSE /\ token \in BOOLEAN

\* the live transport with a token at hand
InitReady == Init0 /\ online = TRUE /\ isMock = FALSE /\ token = TRUE

Transports == 1..(MaxTransports + MaxIdle)
Ids == 1..MaxCalls

\* a session on the live transport: commands, their answers, the connection
Next ==
    \/ Bind(Power)
    \/ \E a \in {<<>>, <<1>>} : Execute(PowerOff, a)
    \/ \E t \in Transports : ServerPong(t)
    \/ \E t \in Transports, id \in Ids, v \in ResultValues : ServerSuccess(t, id, v)
    \/ \E t \in Transports, id \in Ids, c \in ErrorCodes : ServerError(t, id, c)
    \/ \E t \in Transports : TransportError(t, 500)
    \/ \E t \in Transports : TransportComplete(t)
    \/ HealthCheckTimeout
    \/ \E tm \in BagToSet(timers) : ReconnectTimer(tm)
    \/ Microtask

Spec == InitReady /\ [][Next]_vars

\* the connection alone: one command, a transport that fails with any status,
\* a token that may be missing or invalidated and is handed out again
NextConnect ==
    \/ Bind(Power)
    \/ \E t \in Transports : ServerPong(t)
    \/ \E t \in Transports, e \in ErrorStatuses : TransportError(t, e)
    \/ HealthCheckTimeout
    \/ \E tm \in BagToSet(timers) : ReconnectTimer(tm)
    \/ \E tm \in BagToSet(timers) : RetryTimer(tm)
    \/ Microtask
    \/ TokenRefresh

SpecConnect == Init /\ [][NextConnect]_vars

\* the network is reported offline: every connect() fails its preconditions
\* and retries, for two commands with chains of retries of their own
InitOffline == Init0 /\ online = FALSE /\ isMock = FALSE /\ token = TRUE

NextOffline ==
    \/ Bind(Power)
    \/ Execute(PowerOff, <<>>)
    \/ \E tm \in BagToSet(timers) : RetryTimer(tm)

SpecOffline == InitOffline /\ [][NextOffline]_vars

\* connect() under every combination of its preconditions: either transport,
\* the token there or not, the network online or not, both turning good later
InitAny ==
    Init0 /\ online \in BOOLEAN /\ isMock \in BOOLEAN /\ token \in BOOLEAN

NextAny ==
    \/ Bind(Power)
    \/ Execute(PowerOff, <<>>)
    \/ \E t \in Transports : ServerPong(t)
    \/ \E tm \in BagToSet(timers) : RetryTimer(tm)
    \/ \E tm \in BagToSet(timers) : MockResponseTimer(tm)
    \/ \E tm \in BagToSet(timers) : MockNotifyTimer(tm)
    \/ Microtask
    \/ TokenRefresh
    \/ NetworkOnline

SpecAny == InitAny /\ [][NextAny]_vars

\* commands issued before the token is there, with a server that answers:
\* retries fire, the token arrives, continuations run
NextAwait ==
    \/ Bind(Power)
    \/ \E a \in {<<>>, <<1>>} : Execute(PowerOff, a)
    \/ \E t \in Transports : ServerPong(t)
    \/ \E tm \in BagToSet(timers) : RetryTimer(tm)
    \/ Microtask
    \/ TokenRefresh

SpecAwait ==
    /\ Init
    /\ [][NextAwait]_vars
    /\ WF_vars(Microtask)
    /\ WF_vars(TokenRefresh)
    /\ WF_vars(\E tm \in BagToSet(timers) : RetryTimer(tm))
    /\ \A t \in Transports : WF_vars(ServerPong(t))

\* the same session with a server that answers and a connection that does
\* not fail: what is ready to run runs, what the server owes arrives
NextFair ==
    \/ Bind(Power)
    \/ \E a \in {<<>>, <<1>>} : Execute(PowerOff, a)
    \/ \E t \in Transports : ServerPong(t)
    \/ \E t \in Transports, id \in Ids, v \in ResultValues : ServerSuccess(t, id, v)
    \/ \E t \in Transports, id \in Ids, c \in ErrorCodes : ServerError(t, id, c)
    \/ Microtask

SpecFair ==
    /\ InitReady
    /\ [][NextFair]_vars
    /\ WF_vars(Microtask)
    /\ \A t \in Transports : WF_vars(ServerPong(t))
    /\ \A t \in Transports, id \in Ids :
          WF_vars(\/ \E v \in ResultValues : ServerSuccess(t, id, v)
                  \/ \E c \in ErrorCodes : ServerError(t, id, c))

\* bindings on the live transport: listeners and notify frames
Volume == [sys |-> "sys-1", mod |-> "Mod", index |-> 1, name |-> "volume"]

NextNotify ==
    \/ Bind(Power)
    \/ \E o \in {Power, Volume} : Listen(o)
    \/ \E t \in Transports : ServerPong(t)
    \/ \E t \in Transports, o \in {Power, Volume}, v \in WireValues :
          ServerNotify(t, o, v)
    \/ Microtask

SpecNotify == InitReady /\ [][NextNotify]_vars

\* notify frames whose value is JSON (true, "on") or is not (on), for two
\* identities, with a listener and a pending request
ParseValues == {JStr("true"), JStr("on"), JStr("\"on\"")}

NextParse ==
    \/ Execute(PowerOff, <<>>)
    \/ Listen(Power)
    \/ \E t \in Transports : ServerPong(t)
    \/ \E t \in Transports, o \in {Power, Volume}, v \in ParseValues :
          ServerNotify(t, o, v)
    \/ Microtask

SpecParse == InitReady /\ [][NextParse]_vars

\* several listeners of one identity, some of which unsubscribe
NextListeners ==
    \/ Bind(Power)
    \/ Listen(Power)
    \/ \E w \in 1..MaxWatchers : Unsubscribe(w)
    \/ \E t \in Transports : ServerPong(t)
    \/ \E t \in Transports, v \in WireValues : ServerNotify(t, Power, v)
    \/ Microtask

SpecListeners == InitReady /\ [][NextListeners]_vars

\* HTTP requests of every verb, in mock mode and not, with and without token
InitHttp == Init0 /\ online = TRUE /\ isMock \in BOOLEAN /\ token \in BOOLEAN

NextHttp ==
    \/ \E m \in HttpVerbs, u \in HttpUrls : HttpRequest(m, u)
    \/ \E i \in 1..MaxHttp, code \in HttpStatuses : HttpAnswer(i, code)
    \/ TokenRefresh

SpecHttp == InitHttp /\ [][NextHttp]_vars

\* stray frames before the answer to a pending request, with a listener
NextStray ==
    \/ Bind(Power)
    \/ Listen(Power)
    \/ \E t \in Transports : ServerPong(t)
    \/ \E t \in Transports, f \in StrayFrames : ServerStray(t, f)
    \/ \E t \in Transports, id \in Ids, v \in ResultValues : ServerSuccess(t, id, v)
    \/ Microtask

SpecStray == InitReady /\ [][NextStray]_vars

\* a connection with its keep-alive pings that errors, goes unhealthy or
\* closes, the reconnects that follow, and commands made meanwhile
NextReconnect ==
    \/ Bind(Power)
    \/ Execute(PowerOff, <<>>)
    \/ \E t \in Transports : ServerPong(t)
    \/ KeepAliveTick
    \/ \E t \in Transports : TransportError(t, 500)
    \/ \E t \in Transports : TransportComplete(t)
    \/ HealthCheckTimeout
    \/ \E tm \in BagToSet(timers) : ReconnectTimer(tm)
    \/ Microtask

SpecReconnect == InitReady /\ [][NextReconnect]_vars

\* a session on the mock transport with the registered system
InitMock == Init0 /\ online = TRUE /\ isMock = TRUE /\ token = TRUE

NextMock ==
    \/ Bind(Power)
    \/ Unbind(Power)
    \/ Execute(PowerOff, <<>>)
    \/ \E v \in {JTrue, JFalse} : MockSetProperty("power", v)
    \/ \E tm \in BagToSet(timers) : MockResponseTimer(tm)
    \/ \E tm \in BagToSet(timers) : MockNotifyTimer(tm)
    \/ Microtask

SpecMock == InitMock /\ [][NextMock]_vars

\* commands of every verb on the mock transport, addressed to the registered
\* module, to a system that is not registered and to a module and an index
\* the registered system does not hold
PowerOn == [sys |-> "sys-1", mod |-> "Mod", index |-> 1, name |-> "power_on"]
NoSystem == [sys |-> "sys-2", mod |-> "Mod", index |-> 1, name |-> "power_off"]
NoModule == [sys |-> "sys-1", mod |-> "Other", index |-> 1, name |-> "power_off"]
NoIndex == [sys |-> "sys-1", mod |-> "Mod", index |-> 2, name |-> "power_off"]

NextMockCalls ==
    \/ \E o \in {PowerOff, PowerOn, NoSystem, NoModule, NoIndex} :
          Execute(o, <<>>)
    \/ Debug(PowerOff)
    \/ Ignore(PowerOff)
    \/ \E tm \in BagToSet(timers) : MockResponseTimer(tm)
    \/ \E tm \in BagToSet(timers) : MockErrorTimer(tm)
    \/ Microtask

SpecMockCalls == InitMock /\ [][NextMockCalls]_vars

\* the documented mock scenario: the caller binds power once, subscribes to
\* it before or after the bind, and then executes power_off, at once or at
\* any later time; timers fire and continuations run
HasSeen(w, v) == \E i \in 1..Len(watchers[w].log) : watchers[w].log[i] = v
Executed == \E i \in 1..Len(sent) : sent[i].req.cmd = "exec"
Bound == \E i \in 1..Len(sent) : sent[i].req.cmd = "bind"
BindCalled == \E c \in 1..Len(calls) : calls[c].req.cmd = "bind"
ExecCalled == \E c \in 1..Len(calls) : calls[c].req.cmd = "exec"

ScenarioListen == ~ExecCalled /\ Listen(Power)
ScenarioBind == ~BindCalled /\ Bind(Power)
ScenarioExecute == BindCalled /\ Execute(PowerOff, <<>>)

NextScenario ==
    \/ ScenarioListen
    \/ ScenarioBind
    \/ ScenarioExecute
    \/ \E tm \in BagToSet(timers) : MockResponseTimer(tm)
    \/ \E tm \in BagToSet(timers) : MockNotifyTimer(tm)
    \/ Microtask

SpecScenario ==
    /\ InitMock
    /\ [][NextScenario]_vars
    /\ WF_vars(Microtask)
    /\ WF_vars(\E tm \in BagToSet(timers) : MockResponseTimer(tm))
    /\ WF_vars(\E tm \in BagToSet(timers) : MockNotifyTimer(tm))

\* a session on the live transport that the caller tears down once
NextCleanup ==
    \/ Bind(Power)
    \/ Execute(PowerOff, <<>>)
    \/ Listen(Power)
    \/ \E t \in Transports : ServerPong(t)
    \/ \E t \in Transports : ServerNotify(t, Power, JStr("true"))
    \/ Microtask
    \/ (cleaned = "no" /\ Cleanup)

SpecCleanup == InitReady /\ [][NextCleanup]_vars

\* a session whose transport fails and reconnects, torn down once
NextTeardown ==
    \/ Bind(Power)
    \/ Execute(PowerOff, <<>>)
    \/ \E t \in Transports : ServerPong(t)
    \/ \E t \in Transports : TransportError(t, 500)
    \/ \E tm \in BagToSet(timers) : ReconnectTimer(tm)
    \/ Microtask
    \/ (cleaned = "no" /\ Cleanup)

SpecTeardown == InitReady /\ [][NextTeardown]_vars

\* a session whose keep-alive interval runs while the transport fails, closes
\* or goes unhealthy, and the module is torn down once
NextKeepAlive ==
    \/ Bind(Power)
    \/ Execute(PowerOff, <<>>)
    \/ \E t \in Transports : ServerPong(t)
    \/ KeepAliveTick
    \/ \E t \in Transports : TransportError(t, 500)
    \/ \E t \in Transports : TransportComplete(t)
    \/ HealthCheckTimeout
    \/ \E tm \in BagToSet(timers) : ReconnectTimer(tm)
    \/ Microtask
    \/ (cleaned = "no" /\ Cleanup)

SpecKeepAlive == InitReady /\ [][NextKeepAlive]_vars

\* commands addressed to two module instances whose names and indices read
\* the same when written one after the other
Mod1Index2 == [sys |-> "sys-1", mod |-> "Mod1", index |-> 2, name |-> "power_off"]
ModIndex12 == [sys |-> "sys-1", mod |-> "Mod", index |-> 12, name |-> "power_off"]

NextKeys ==
    \/ \E o \in {Mod1Index2, ModIndex12} : Execute(o, <<>>)
    \/ \E o \in {Mod1Index2, ModIndex12} : Debug(o)
    \/ \E t \in Transports : ServerPong(t)
    \/ \E t \in Transports, id \in Ids, v \in ResultValues : ServerSuccess(t, id, v)
    \/ \E t \in Transports, id \in Ids, code \in ErrorCodes : ServerError(t, id, code)
    \/ Microtask

SpecKeys == InitReady /\ [][NextKeys]_vars

(***************************************************************************)
(* Claims.                                                                 *)
(***************************************************************************)
Last(seq) == seq[Len(seq)]
IsCall == Len(calls') = Len(calls) + 1
CallKey == DedupKey(Last(calls').req)

\* the outcome a caller holding promise p observes: a promise settled by
\* send(request).then(resolve, reject) takes the outcome of the one it follows
RECURSIVE Outcome(_)
Outcome(p) ==
    IF promises[p].follows # 0 /\ promises[p].follows # p
    THEN Outcome(promises[p].follows)
    ELSE <<promises[p].state, promises[p].value>>

\* the command frames transmitted for the calls that were handed promise p
FramesFor(p) ==
    {i \in 1..Len(sent) :
        \E c \in 1..Len(calls) :
            calls[c].promise = p /\ calls[c].req.id = sent[i].req.id}

\* C1: while connected, a call whose dedup key is that of a pending request
\* returns the pending request's promise, transmits no frame and creates no
\* further record or promise (so both callers observe one outcome).
C1_PendingIsShared ==
    [][(IsCall /\ Connected(St) /\ HasRequest(St, CallKey))
          => /\ Last(calls').promise = RequestOf(St, CallKey).promise
             /\ sent' = sent
             /\ requests' = requests
             /\ promises' = promises]_vars

C1_Witness ==
    \E i, j \in 1..Len(calls) :
        /\ i < j
        /\ DedupKey(calls[i].req) = DedupKey(calls[j].req)
        /\ calls[i].req.args # calls[j].req.args
        /\ Outcome(calls[i].promise) = Outcome(calls[j].promise)
        /\ status
        /\ Len(sent) = 1
        /\ HasRequest(St, DedupKey(calls[j].req))
        /\ RequestOf(St, DedupKey(calls[j].req)).resolve
        /\ RequestOf(St, DedupKey(calls[j].req)).promise = calls[j].promise

Waiting(r) == ~r.resolve

\* C2: every command issued while disconnected is eventually transmitted,
\* given a server that answers, also when several commands with different
\* keys were issued before the connection was there.
C2_EventuallyTransmitted ==
    \A id \in Ids :
        (\E i \in 1..Len(requests) : requests[i].id = id /\ Waiting(requests[i]))
            ~> (\E j \in 1..Len(sent) : sent[j].req.id = id)

\* C3: while a request waits for the connection no command frame has been
\* transmitted for it, every identical call made meanwhile was handed its
\* promise, and once the connection is there and the request resubmitted
\* exactly one command frame has been transmitted for all of them.
C3_OneFrameAfterConnect ==
    /\ \A i \in 1..Len(requests) :
          Waiting(requests[i]) =>
              /\ FramesFor(requests[i].promise) = {}
              /\ \A c \in 1..Len(calls) :
                    (DedupKey(calls[c].req) = requests[i].key
                        /\ calls[c].req.id >= requests[i].id)
                        => calls[c].promise = requests[i].promise
    /\ \A p \in 1..Len(promises) :
          promises[p].follows # 0 => Cardinality(FramesFor(p)) = 1

C3_Witness ==
    \E p \in 1..Len(promises) :
        /\ promises[p].follows # 0
        /\ Cardinality({c \in 1..Len(calls) : calls[c].promise = p}) = 2
        /\ Cardinality(FramesFor(p)) = 1

\* a pending record that can be settled, carrying this id
Settleable(id) ==
    \E i \in 1..Len(requests) : requests[i].id = id /\ requests[i].resolve

RecordWithId(id) ==
    requests[CHOOSE i \in 1..Len(requests) : requests[i].id = id]

\* C6: an error frame whose id is that of a pending request rejects that
\* request's promise with the frame's code and id and removes its record;
\* the other records and promises and the connection status stay as they are.
C6_ErrorRejectsOne ==
    [][\A t \in Transports, id \in Ids, c \in ErrorCodes :
          (ServerError(t, id, c) /\ Settleable(id)) =>
              LET r == RecordWithId(id)
              IN  /\ promises'[r.promise].state = "rejected"
                  /\ promises'[r.promise].value = <<"error", c, ToString(id)>>
                  /\ requests' = SelectSeq(requests, LAMBDA x : x.id # id)
                  /\ \A p \in 1..Len(promises) :
                        p # r.promise => promises'[p] = promises[p]
                  /\ status' = status]_vars

\* C7: a success frame resolves the pending record with the frame's id with
\* the frame's value and removes it, leaving every other record and promise
\* alone; a frame whose id no pending record has settles and removes nothing.
C7_SuccessResolvesById ==
    [][\A t \in Transports, id \in Ids, v \in ResultValues :
          ServerSuccess(t, id, v) =>
              IF \E i \in 1..Len(requests) : requests[i].id = id
              THEN LET r == RecordWithId(id)
                   IN  /\ promises'[r.promise].state = "resolved"
                       /\ promises'[r.promise].value = v
                       /\ requests' = SelectSeq(requests, LAMBDA x : x.id # id)
                       /\ \A p \in 1..Len(promises) :
                             p # r.promise => promises'[p] = promises[p]
              ELSE /\ requests' = requests
                   /\ promises' = promises]_vars

\* the later of two pending requests was answered first, then a second
\* success frame for it arrived
C7_Witness ==
    /\ Len(requests) = 1
    /\ requests[1].resolve
    /\ requests[1].id = 1
    /\ \E p \in 1..Len(promises) :
          /\ promises[p].state = "resolved"
          /\ promises[p].value = JStr("ok")

\* the notify frames received so far for the identity with this key
ReceivedFor(key) ==
    SelectSeq(received, LAMBDA f : BindingKey(f.meta) = key)

\* C4: a listener has observed the value that was current when it
\* subscribed (null when nothing had been notified, else the value of the
\* most recent notify frame) followed by the value of every notify frame
\* received for its identity since, in the order the frames arrived.
C4_NotifyOrder ==
    \A w \in 1..Len(watchers) :
        LET fr == ReceivedFor(watchers[w].key)
            n == watchers[w].after
        IN  watchers[w].log =
                <<IF n = 0 THEN JNull ELSE JSONparse(fr[n].value)>>
                \o [i \in 1..(Len(fr) - n) |-> JSONparse(fr[n + i].value)]

\* a listener that subscribed after two notifies and has seen a third
C4_Witness ==
    \E w \in 1..Len(watchers) :
        /\ watchers[w].after = 2
        /\ Len(watchers[w].log) = 2
        /\ watchers[w].log[1] # watchers[w].log[2]
        /\ \E u \in 1..Len(watchers) : Len(watchers[u].log) = 4

Max(S) == CHOOSE x \in S : \A y \in S : x >= y

\* the last bind or unbind the mock transport processed for the identity
\* was an unbind
Unbound(options) ==
    LET idx == {i \in 1..Len(sent) :
                   /\ sent[i].req.cmd \in {"bind", "unbind"}
                   /\ BindingKey(sent[i].req) = BindingKey(options)}
    IN  idx # {} /\ sent[Max(idx)].req.cmd = "unbind"

NotifyTimers(bag, options) ==
    LET S == {x \in BagToSet(bag) :
                 x.kind = "notify" /\ BindingKey(x.req) = BindingKey(options)}
    IN  BagCardinality([x \in S |-> bag[x]])

\* C5: on the mock transport, once unbind has been processed for an
\* identity a change of the module's property schedules no notify frame for
\* it, so nothing more is emitted to its listeners, and value() keeps
\* returning the value delivered last.
C5_UnbindStopsNotifies ==
    [][(Unbound(Power) /\ props'["power"] # props["power"])
          => /\ NotifyTimers(timers', Power) <= NotifyTimers(timers, Power)
             /\ value(St, Power)' = value(St, Power)]_vars

\* C8: with power = true and power_off registered, a listener of power
\* receives true once power is bound, and after power_off has been executed
\* every value emitted next is false, which the listener does receive last.
C8_PowerScenario ==
    /\ (Bound /\ watchers # <<>>)
          ~> (\A w \in 1..Len(watchers) : HasSeen(w, JTrue))
    /\ Executed ~> (\A w \in 1..Len(watchers) : Last(watchers[w].log) = JFalse)
    /\ [][Executed =>
            \A w \in 1..Len(watchers) :
                \A i \in (Len(watchers[w].log) + 1)..Len(watchers'[w].log) :
                    watchers'[w].log[i] = JFalse]_vars

\* a notify frame carrying true is still to be emitted
TruePending ==
    \E tm \in BagToSet(timers) : tm.kind = "notify" /\ tm.value = JTrue

\* C8, amended: with power = true and power_off registered, a listener of
\* power receives true once power is bound and receives false once power_off
\* has been executed; after the execute, once no notify frame carrying true
\* is still to be emitted, every value emitted next is false.
C8_FalseAfterTrueDelivered ==
    /\ (Bound /\ watchers # <<>>)
          ~> (\A w \in 1..Len(watchers) : HasSeen(w, JTrue))
    /\ Executed ~> (\A w \in 1..Len(watchers) : HasSeen(w, JFalse))
    /\ [][(Executed /\ ~TruePending) =>
            \A w \in 1..Len(watchers) :
                \A i \in (Len(watchers[w].log) + 1)..Len(watchers'[w].log) :
                    watchers'[w].log[i] = JFalse]_vars

\* power_off was executed after the listener had been handed true, and the
\* listener was then handed false
C8_Witness ==
    /\ Executed
    /\ \E w \in 1..Len(watchers) :
          /\ watchers[w].log[1] = JNull
          /\ HasSeen(w, JTrue)
          /\ Last(watchers[w].log) = JFalse

\* the current value of the stream a fresh listen(options) returns
FreshListenValue(options) ==
    LET s1 == listen(St, options)
    IN  s1.subjects[s1.observers[BindingKey(options)]].value

\* C9: right after cleanupRealtime() the bindings, listeners and pending
\* requests maps are empty, is_connected() is false, value() of an identity
\* returns nothing and a fresh listen() yields a stream whose value is null.
C9_CleanupResets ==
    [][Cleanup =>
          /\ binding' = EmptyMap
          /\ observers' = EmptyMap
          /\ listeners' = EmptyMap
          /\ requests' = <<>>
          /\ ~status'
          /\ value(St, Power)' = JUndefined
          /\ FreshListenValue(Power)' = JNull]_vars

\* cleanup has just run over a pending request and a binding holding a value
C9_Witness ==
    /\ cleaned = "quiet"
    /\ binding = EmptyMap
    /\ \E p \in 1..Len(promises) : promises[p].state = "pending"
    /\ \E sid \in 1..Len(subjects) : subjects[sid].value # JNull

\* a callback scheduled with setTimeout runs in this step
TimerFires == \E tm \in BagToSet(timers) : CopiesIn(tm, timers') < CopiesIn(tm, timers)

\* C10: from cleanupRealtime() until the caller's next command no timer does
\* anything: when one fires no connect attempt is made, no ping or command
\* frame is sent, the status does not become connected and no value is
\* emitted to a listener.
C10_QuietAfterCleanup ==
    [][(cleaned = "quiet" /\ cleaned' = "quiet" /\ TimerFires) =>
          /\ transports' = transports
          /\ pings' = pings
          /\ sent' = sent
          /\ ~status'
          /\ \A w \in 1..Len(watchers) : watchers'[w].log = watchers[w].log]_vars

\* C11: the promise of every connect() call resolves once the token is
\* there, however many retries it took: connect() opens the transport and
\* the first inbound frame sets the status and resolves the promise.
C11_ConnectResolves ==
    \A c \in 1..MaxCalls :
        (c <= Len(connects) /\ token /\ online)
            ~> (c <= Len(connects) /\ connects[c].resolved /\ status)

\* C12: the commands built in a session carry strictly increasing request
\* ids, in the order they were built, whether or not send() found their key
\* pending; so no id is used twice.
C12_IdsIncrease ==
    \A i, j \in 1..Len(calls) :
        i < j => calls[i].req.id < calls[j].req.id

\* a call that was handed the promise of an earlier, still pending one
C12_Witness ==
    \E i, j \in 1..Len(calls) :
        /\ i < j
        /\ DedupKey(calls[i].req) = DedupKey(calls[j].req)
        /\ calls[i].promise = calls[j].promise
        /\ promises[calls[i].promise].state = "pending"
        /\ calls[j].req.id = calls[i].req.id + 1

\* C13: a transport error, a transport completion and a health-check
\* timeout settle no promise of a command, and a promise of a command is
\* rejected only by an error frame carrying the id of its pending record.
C13_OnlyErrorFramesReject ==
    [][/\ (\/ \E t \in Transports, e \in ErrorStatuses : TransportError(t, e)
           \/ \E t \in Transports : TransportComplete(t)
           \/ HealthCheckTimeout)
          => promises' = promises
       /\ \A p \in 1..Len(promises) :
             (promises[p].state = "pending" /\ promises'[p].state = "rejected")
                => \E t \in Transports, id \in Ids, c \in ErrorCodes :
                      /\ ServerError(t, id, c)
                      /\ Settleable(id)
                      /\ RecordWithId(id).promise = p]_vars

\* one request was rejected by its error frame; the other was transmitted,
\* lost its transport to an error and is still pending
C13_Witness ==
    /\ refreshes > 0
    /\ \E p \in 1..Len(promises) : promises[p].state = "rejected"
    /\ \E i \in 1..Len(requests) :
          /\ requests[i].resolve
          /\ promises[requests[i].promise].state = "pending"
          /\ \E k \in 1..Len(sent) :
                /\ sent[k].req.id = requests[i].id
                /\ transports[sent[k].ws].state = "done"

\* C14: at most one transport is subscribed by connect() at any moment.
C14_OneTransportSubscribed ==
    Cardinality({t \in 1..Len(transports) : transports[t].state = "open"}) <= 1

\* C15: a request that got no success or error frame stays pending: a
\* transport error, a completion, the health check and a reconnect leave every
\* record and promise as they are, and a later identical call, connected or
\* not, is handed the pending promise and transmits no frame.
C15_UnansweredStaysPending ==
    [][/\ (\/ \E t \in Transports, e \in ErrorStatuses : TransportError(t, e)
           \/ \E t \in Transports : TransportComplete(t)
           \/ HealthCheckTimeout
           \/ \E tm \in BagToSet(timers) : ReconnectTimer(tm))
          => (requests' = requests /\ promises' = promises)
       /\ (IsCall /\ HasRequest(St, CallKey) /\ RequestOf(St, CallKey).resolve)
          => /\ Last(calls').promise = RequestOf(St, CallKey).promise
             /\ promises[RequestOf(St, CallKey).promise].state = "pending"
             /\ sent' = sent
             /\ requests' = requests]_vars

\* the transport the request went out on is gone, a new one is connected, and
\* both identical calls hold the one pending promise of the one frame sent
C15_Witness ==
    \E i, j \in 1..Len(calls), r \in 1..Len(requests) :
        /\ i < j
        /\ requests[r].resolve
        /\ requests[r].id = calls[i].req.id
        /\ requests[r].key = DedupKey(calls[j].req)
        /\ calls[j].promise = requests[r].promise
        /\ promises[requests[r].promise].state = "pending"
        /\ Len(sent) = 1
        /\ sent[1].req.id = requests[r].id
        /\ transports[sent[1].ws].state = "done"
        /\ status
        /\ websocket # sent[1].ws
        /\ transports[websocket].state = "open"

\* C16: on the mock transport the error frame of a command to a system that
\* is not registered rejects with SYS_NOT_FOUND and the request's id, and
\* that of a command to a registered system whose module or index does not
\* resolve rejects with MOD_NOT_FOUND.
C16_MockErrorCodes ==
    [][\A tm \in BagToSet(timers) :
          (MockErrorTimer(tm) /\ Settleable(tm.req.id)) =>
              LET r == RecordWithId(tm.req.id)
              IN  /\ promises'[r.promise].state = "rejected"
                  /\ promises'[r.promise].value =
                        <<"error",
                          IF mockSystem(tm.req.sys) THEN "MOD_NOT_FOUND"
                                                    ELSE "SYS_NOT_FOUND",
                          ToString(tm.req.id)>>]_vars

\* what the named method of the mock module leaves in the power property
PowerAfter(name) == IF name = "power_on" THEN JTrue ELSE JFalse

\* C17: on the mock transport the response to an exec command to a resolvable
\* module invokes the named method and resolves the request with the result
\* of the invocation; the response to a debug or ignore command invokes
\* nothing and resolves the request with null.
C17_ExecInvokes ==
    [][\A tm \in BagToSet(timers) :
          (MockResponseTimer(tm) /\ Settleable(tm.req.id)) =>
              LET r == RecordWithId(tm.req.id)
              IN  /\ promises'[r.promise].state = "resolved"
                  /\ IF tm.req.cmd = "exec"
                     THEN /\ props'["power"] = PowerAfter(tm.req.name)
                          /\ promises'[r.promise].value = JUndefined
                     ELSE /\ props' = props
                          /\ promises'[r.promise].value = JNull]_vars

\* a debug command answered with null while power kept its initial value
C17_Witness ==
    \E i \in 1..Len(calls) :
        /\ calls[i].req.cmd = "debug"
        /\ Outcome(calls[i].promise) = <<"resolved", JNull>>
        /\ props["power"] = JTrue
        /\ \E j \in 1..Len(calls) :
              /\ calls[j].req.cmd = "exec"
              /\ calls[j].req.name = "power_on"
              /\ Outcome(calls[j].promise) = <<"resolved", JUndefined>>

\* C17 as stated: every verb other than bind and unbind invokes the method
C17_AnyVerbInvokes ==
    [][\A tm \in BagToSet(timers) :
          (MockResponseTimer(tm) /\ Settleable(tm.req.id)
              /\ tm.req.cmd \notin {"bind", "unbind"}) =>
              LET r == RecordWithId(tm.req.id)
              IN  /\ promises'[r.promise].state = "resolved"
                  /\ props'["power"] = PowerAfter(tm.req.name)
                  /\ promises'[r.promise].value = JUndefined]_vars

\* C18: a notify frame the mock transport emits is dispatched once: each
\* listener of the frame's binding receives exactly one value for it.
C18_MockFrameOnce ==
    [][\A tm \in BagToSet(timers) :
          MockNotifyTimer(tm) =>
              \A w \in 1..Len(watchers) :
                  (watchers[w].active /\ watchers[w].key = BindingKey(tm.req))
                      => Len(watchers'[w].log) = Len(watchers[w].log) + 1]_vars

\* the reconnects scheduled and not yet run
ReconnectTimers(b) ==
    LET S == {tm \in BagToSet(b) : tm.kind = "reconnect"}
    IN  IF S = {} THEN 0 ELSE BagCardinality([tm \in S |-> b[tm]])

\* an inbound frame is handed to the next-handler of connect()
InboundFrame ==
    \E t \in Transports :
        \/ ServerPong(t)
        \/ \E id \in Ids :
              \/ \E v \in ResultValues : ServerSuccess(t, id, v)
              \/ \E c \in ErrorCodes : ServerError(t, id, c)

\* C19: the health check is started only by connect() opening a transport;
\* when it fires the status becomes disconnected and a reconnect is
\* scheduled; an inbound frame cancels it, and it is cancelled by nothing
\* but an inbound frame, a transport error or its own firing, so it fires
\* unless a frame arrives first and cannot fire after one did.
C19_HealthCheck ==
    [][/\ InboundFrame => ~health_check'
       /\ HealthCheckTimeout
             => /\ ~status'
                /\ ~health_check'
                /\ ReconnectTimers(timers') = ReconnectTimers(timers) + 1
       /\ (~health_check /\ health_check')
             => /\ Len(transports') = Len(transports) + 1
                /\ transports'[websocket'].state = "open"
       /\ (health_check /\ ~health_check')
             => \/ InboundFrame
                \/ HealthCheckTimeout
                \/ \E t \in Transports, e \in ErrorStatuses :
                      TransportError(t, e)]_vars

\* the health check of a connection that received no frame has fired
C19_Witness ==
    \E t \in 1..Len(transports) :
        /\ transports[t].state = "closing"
        /\ ~connects[transports[t].conn].resolved
        /\ refreshes = 0
        /\ ~status
        /\ ~health_check
        /\ ReconnectTimers(timers) = 1

\* C20: a transport error of any status clears the health check, sets the
\* status to disconnected, refreshes the authority and schedules one
\* reconnect; it invalidates the token when its status is 401 and leaves the
\* token as it is otherwise.
C20_TransportError ==
    [][\A t \in Transports, e \in ErrorStatuses :
          TransportError(t, e) =>
              /\ ~health_check'
              /\ ~status'
              /\ ReconnectTimers(timers') = ReconnectTimers(timers) + 1
              /\ refreshes' = refreshes + 1
              /\ token' = (token /\ e # 401)
              /\ transports'[t].state = "done"]_vars

\* after a 401 the token is gone and the reconnect is waiting; after another
\* status the token is still there
C20_Witness ==
    /\ refreshes > 0
    /\ ~status
    /\ ~health_check
    /\ ReconnectTimers(timers) > 0
    /\ \E t \in 1..Len(transports) : transports[t].state = "done"
    /\ token

\* C21: when a transport completes, the status becomes disconnected and the
\* completion schedules nothing: no timer is added, no transport is created,
\* no connect() is called and no continuation is queued.
C21_CompletionSchedulesNothing ==
    [][\A t \in Transports :
          TransportComplete(t) =>
              /\ ~status'
              /\ timers' = timers
              /\ Len(transports') = Len(transports)
              /\ websocket' = websocket
              /\ connects' = connects
              /\ microtasks' = microtasks
              /\ connection_attempts' = connection_attempts]_vars

\* the only transport, once connected, has closed by itself; nothing is
\* scheduled
C21_Witness ==
    /\ Len(transports) = 1
    /\ transports[1].state = "done"
    /\ connects[1].resolved
    /\ refreshes = 0
    /\ ~status
    /\ timers = EmptyBag

\* C22: the delay of every reconnect scheduled is at most 5000 ms and is not
\* below the delay reconnect() waits after fewer failed attempts.
C22_ReconnectBackoff ==
    [][\A tm \in BagToSet(timers') :
          (tm.kind = "reconnect" /\ CopiesIn(tm, timers') > CopiesIn(tm, timers))
              => /\ tm.delay <= 5000
                 /\ \A a \in 0..connection_attempts :
                       ReconnectDelay(a) <= tm.delay]_vars

\* the delay before the k-th consecutive retry
RetryDelayOf(k) == IF k <= 20 THEN 300 * k ELSE 6000

RetryOf(c, k) ==
    [NoTimer EXCEPT !.kind = "retry", !.conn = c, !.tries = k,
                    !.delay = RetryDelayOf(k)]

\* C23: while connect() cannot proceed, the first retry of a connect() waits
\* 300 ms, the retry that follows the k-th waits 300 ms * min(20, k + 1), and
\* no retry waits more than 6000 ms.
C23_RetryBackoff ==
    [][/\ \A tm \in BagToSet(timers') :
             tm.kind = "retry" => (tm = RetryOf(tm.conn, tm.tries) /\ tm.delay <= 6000)
       /\ (IsCall /\ Len(connects') = Len(connects) + 1 /\ ~online)
             => timers' = timers (+) SetToBag({RetryOf(Len(connects'), 1)})
       /\ \A tm \in BagToSet(timers) :
             (RetryTimer(tm) /\ ~online)
                 => /\ timers' = (timers (-) SetToBag({tm}))
                                     (+) SetToBag({RetryOf(tm.conn, tm.tries + 1)})
                    /\ connection_attempts' = connection_attempts + 1]_vars

\* the 21st consecutive retry of one connect() waits the capped 6000 ms
C23_Witness ==
    \E tm \in BagToSet(timers) :
        tm.kind = "retry" /\ tm.tries = 21 /\ tm.delay = 6000

\* the retries scheduled and not yet run
RetryTimers(b) ==
    LET S == {tm \in BagToSet(b) : tm.kind = "retry"}
    IN  IF S = {} THEN 0 ELSE BagCardinality([tm \in S |-> b[tm]])

\* a step in which connect() ran (it creates one transport), as a fresh call
\* or as the retry of one
ConnectRan == Len(transports') = Len(transports) + 1
FreshConnect == Len(connects') = Len(connects) + 1

\* C24: connect() subscribes to the transport it created, sends a ping and
\* starts the keep-alive and the health check exactly when a token is there
\* or the transport is the mock, and the network is online; otherwise the
\* transport is left unsubscribed, no ping is sent, the timers and the status
\* stay as they are and one retry is scheduled.
C24_ConnectPreconditions ==
    [][ConnectRan =>
          IF (token \/ isMock) /\ online
          THEN /\ transports'[websocket'].state = "open"
               /\ KeepAliveOn(St)'
               /\ health_check'
               /\ pings' = pings + 1
               /\ RetryTimers(timers') =
                      RetryTimers(timers) - (IF FreshConnect THEN 0 ELSE 1)
          ELSE /\ transports'[websocket'].state = "idle"
               /\ keep_alive' = keep_alive
               /\ health_check' = health_check
               /\ pings' = pings
               /\ status' = status
               /\ RetryTimers(timers') =
                      RetryTimers(timers) + (IF FreshConnect THEN 1 ELSE 0)]_vars

\* a mock transport connected without a token next to a retry still waiting
C24_Witness ==
    /\ isMock
    /\ ~token
    /\ \E t \in 1..Len(transports) : transports[t].state = "open"
    /\ \E t \in 1..Len(transports) : transports[t].state = "idle"
    /\ KeepAliveOn(St)

\* what a listener is to receive for the value a notify frame carries
Notified(v) ==
    CASE v = JStr("true") -> JTrue
      [] v = JStr("false") -> JFalse
      [] v = JStr("\"on\"") -> JStr("on")
      [] OTHER -> v

BindingValue(b, subs, key) == subs[b[key]].value

\* C25: a notify frame with a meta identity leaves the binding of that
\* identity existing and holding the parsed value, or the raw value when the
\* value does not parse; every other binding keeps its value and the pending
\* requests and their promises stay as they are.
C25_NotifyUpdates ==
    [][\A t \in Transports, o \in {Power, Volume}, v \in ParseValues :
          ServerNotify(t, o, v) =>
              /\ BindingKey(o) \in DOMAIN binding'
              /\ BindingValue(binding', subjects', BindingKey(o)) = Notified(v)
              /\ \A k \in DOMAIN binding :
                    /\ binding'[k] = binding[k]
                    /\ k # BindingKey(o) =>
                          BindingValue(binding', subjects', k) =
                              BindingValue(binding, subjects, k)
              /\ DOMAIN binding' = DOMAIN binding \cup {BindingKey(o)}
              /\ requests' = requests
              /\ promises' = promises]_vars

\* the last frame did not parse: its raw text is the value of a binding no
\* listen() had created, next to another binding and a pending request
C25_Witness ==
    /\ received # <<>>
    /\ Last(received).value = JStr("on")
    /\ Last(received).meta = Volume
    /\ value(St, Volume) = JStr("on")
    /\ value(St, Power) = JTrue
    /\ \E i \in 1..Len(requests) : requests[i].resolve

Listened(o) ==
    \E w \in 1..Len(watchers) : watchers[w].key = BindingKey(o)
Notifies(o) == ReceivedFor(BindingKey(o))

\* C26: every listen() of one identity returns the one stream of that
\* identity, creating it with the value null only when the identity has no
\* entry; value() returns undefined while the identity has no entry (no
\* listen() and no notify made one), null once listen() made the entry and
\* nothing was notified, and otherwise the value notified last.
C26_ListenAndValue ==
    /\ [](\A o \in {Power, Volume} :
             /\ \A w \in 1..Len(watchers) :
                   watchers[w].key = BindingKey(o)
                       => watchers[w].subject = observers[BindingKey(o)]
             /\ value(St, o) =
                   IF Notifies(o) # <<>>
                   THEN Notified(Last(Notifies(o)).value)
                   ELSE IF Listened(o) THEN JNull ELSE JUndefined)
    /\ [][\A o \in {Power, Volume} :
             Listen(o) =>
                 IF BindingKey(o) \in DOMAIN binding
                 THEN subjects' = subjects /\ binding' = binding
                 ELSE subjects' = Append(subjects, [value |-> JNull])]_vars

\* two listeners of power share its stream, which holds the value notified
\* last; volume has been notified a value as well
C26_Witness ==
    /\ Cardinality({w \in 1..Len(watchers) : watchers[w].key = BindingKey(Power)}) = 2
    /\ Len(Notifies(Power)) = 2
    /\ value(St, Power) = JFalse
    /\ Notifies(Volume) # <<>>

\* C26 as stated: value() is undefined until a value has been notified
C26_UndefinedUntilNotified ==
    \A o \in {Power, Volume} :
        value(St, o) = IF Notifies(o) # <<>>
                       THEN Notified(Last(Notifies(o)).value)
                       ELSE JUndefined

\* C27: when one listener of an identity unsubscribes the others stay
\* subscribed, and each listener still subscribed receives the value of every
\* later notify frame for the identity, the unsubscribed one nothing.
C27_IndependentListeners ==
    [][/\ \A w \in 1..MaxWatchers :
             Unsubscribe(w) =>
                 \A u \in 1..Len(watchers) : u # w => watchers'[u] = watchers[u]
       /\ \A t \in Transports, v \in WireValues :
             ServerNotify(t, Power, v) =>
                 \A u \in 1..Len(watchers) :
                     watchers'[u].log =
                         IF watchers[u].active
                         THEN Append(watchers[u].log, Notified(v))
                         ELSE watchers[u].log]_vars

\* the first listener unsubscribed; the second, subscribed later, has
\* received a value the first did not
C27_Witness ==
    /\ Len(watchers) >= 2
    /\ ~watchers[1].active
    /\ watchers[2].active
    /\ watchers[2].key = watchers[1].key
    /\ watchers[2].after > 0
    /\ Len(watchers[2].log) > Len(watchers[1].log)

Fetches(h) == Cardinality({i \in 1..Len(h) : h[i].via = "fetch"})

\* C28: in mock mode a request whose method and path have a registered
\* handler is answered with the handler's response and fetches nothing; a
\* request without a handler is fetched live with the Authorization header
\* set to the bearer token.
C28_MockHttp ==
    [][\A m \in HttpVerbs, u \in HttpUrls :
          (HttpRequest(m, u) /\ isMock) =>
              LET r == Last(http')
              IN  IF <<m, u>> \in MockHandlers
                  THEN /\ r.via = "mock"
                       /\ r.response = MockResponse(m, u)
                       /\ Fetches(http') = Fetches(http)
                  ELSE /\ r.via = "fetch"
                       /\ r.headers.Authorization = <<"Bearer", token>>
                       /\ Fetches(http') = Fetches(http) + 1]_vars

\* in mock mode one request was answered by its handler and one, without a
\* handler, went to the network
C28_Witness ==
    /\ isMock
    /\ Len(http) = 2
    /\ http[1].via = "mock"
    /\ http[1].response = MockResponse("GET", SystemsUrl)
    /\ http[2].via = "fetch"
    /\ http[2].headers.Authorization = <<"Bearer", TRUE>>

\* C29: a pong, a notify frame without meta, an object of unknown type and
\* the echo of a command frame change no binding, emit nothing to listeners,
\* and leave the pending requests and every promise as they are.
C29_StrayFramesIgnored ==
    [][(\E t \in Transports :
           \/ ServerPong(t)
           \/ \E f \in StrayFrames : ServerStray(t, f))
          => /\ binding' = binding
             /\ observers' = observers
             /\ subjects' = subjects
             /\ watchers' = watchers
             /\ requests' = requests
             /\ promises' = promises]_vars

\* the echo of the pending bind, an object of unknown type naming it and a
\* notify frame without meta arrived; the listener has received nothing and
\* the success frame that came after them was processed
C29_Witness ==
    /\ Len(received) = 3
    /\ received[1].type = "cmd"
    /\ received[2].type = "unknown"
    /\ received[2].id = received[1].id
    /\ received[3].type = "notify"
    /\ \E w \in 1..Len(watchers) : watchers[w].after = 0 /\ watchers[w].log = <<JNull>>
    /\ \E c \in 1..Len(calls) :
          /\ calls[c].req.id = received[1].id
          /\ Outcome(calls[c].promise) = <<"resolved", JStr("ok")>>

\* a step in which reconnect() ran: it schedules one connect
ReconnectRan == ReconnectTimers(timers') = ReconnectTimers(timers) + 1

\* the keep-alive intervals that have not been cleared
ActiveIntervals == {i \in 1..Len(intervals) : intervals[i]}

\* a step of one of the two callers of reconnect(): the error-handler of a
\* transport or the health-check callback
ReconnectCalled ==
    \/ \E t \in Transports, err \in ErrorStatuses : TransportError(t, err)
    \/ HealthCheckTimeout

\* the step is the scheduled connect of a reconnect()
ReconnectFires == \E tm \in BagToSet(timers) : ReconnectTimer(tm)

\* C30, amended: reconnect() leaves the current transport completed, the
\* status disconnected and no keep-alive interval running, opens nothing and
\* sends no ping itself, and schedules exactly one connect and nothing else;
\* that timer runs connect() once; while no keep-alive is running a ping is
\* sent only by a connect(), and a connect() that runs while the scheduled
\* one is waiting is made by a command of the caller or its continuation.
C30_ReconnectTeardown ==
    [][/\ ReconnectCalled
             => /\ websocket # 0
                /\ websocket' = websocket
                /\ transports'[websocket].state \in {"closing", "done"}
                /\ ~status'
                /\ keep_alive' = 0
                /\ ActiveIntervals' = {}
                /\ Len(transports') = Len(transports)
                /\ Len(connects') = Len(connects)
                /\ pings' = pings
                /\ ReconnectTimers(timers') = ReconnectTimers(timers) + 1
                /\ BagCardinality(timers') = BagCardinality(timers) + 1
       /\ (~ReconnectCalled) => ReconnectTimers(timers') <= ReconnectTimers(timers)
       /\ (~KeepAliveOn(St) /\ pings' # pings) => ConnectRan
       /\ (ReconnectTimers(timers) > 0 /\ ConnectRan /\ ~ReconnectFires)
             => IsCall \/ microtasks # <<>>
       /\ ReconnectFires
             => /\ Len(connects') = Len(connects) + 1
                /\ Len(transports') = Len(transports) + 1
                /\ ReconnectTimers(timers') = ReconnectTimers(timers) - 1]_vars

\* reconnect() tore down the connection of transport 1 and its connect is
\* still waiting; a command made meanwhile has opened transport 2, which
\* pinged and runs its own keep-alive
C30_Witness ==
    /\ Len(transports) = 2
    /\ transports[1].state = "closing"
    /\ transports[2].state = "open"
    /\ ReconnectTimers(timers) = 1
    /\ KeepAliveOn(St)
    /\ pinged = 2
    /\ ~status

\* C30: reconnect() tears the connection down and schedules one connect, and
\* no ping is sent between the teardown and that connect.
C30_NoPingBeforeConnect ==
    [][(ReconnectTimers(timers) > 0 /\ pings' # pings) => ReconnectFires]_vars

CleanupRan == cleaned = "no" /\ cleaned' = "quiet"

\* C31: at most one keep-alive interval is running, the one _keep_alive
\* names; a connect() that starts one leaves no earlier one running; a ping
\* sent by the interval goes to the current transport; after reconnect() or
\* cleanupRealtime() no interval is running, and while none is running a
\* ping is sent only by a connect().
C31_OneKeepAlive ==
    [][/\ Cardinality(ActiveIntervals') <= 1
       /\ ActiveIntervals' \subseteq {keep_alive'}
       /\ Len(intervals') > Len(intervals)
             => /\ ConnectRan
                /\ ActiveIntervals' = {Len(intervals')}
                /\ pinged' = websocket'
       /\ (pings' # pings /\ ~ConnectRan)
             => /\ ActiveIntervals # {}
                /\ pinged' = websocket
                /\ websocket' = websocket
       /\ (ReconnectRan /\ websocket # 0) => ActiveIntervals' = {}
       /\ CleanupRan => ActiveIntervals' = {}
       /\ (ActiveIntervals = {} /\ pings' # pings) => ConnectRan]_vars

\* the interval of the first connect() pinged its transport, a second
\* connect() then replaced that interval with its own, and cleanupRealtime()
\* cancelled the second
C31_Witness ==
    /\ Len(intervals) = 2
    /\ pings = 3
    /\ pinged = 2
    /\ cleaned = "quiet"
    /\ ActiveIntervals = {}
    /\ keep_alive = 2

\* C32: whenever is_connected() is true the transport reference is set, so
\* that send() has a transport to hand its frame to.
C32_ConnectedHasTransport == status => websocket # 0

\* C33: two calls are answered by the same pending record only when they
\* agree on verb, system, module name, module index and variable name.
C33_CollapseOnlyEqual ==
    \A c, d \in 1..Len(calls) :
        calls[c].promise = calls[d].promise
            => /\ calls[c].req.cmd = calls[d].req.cmd
               /\ Meta(calls[c].req) = Meta(calls[d].req)

\* C34: on the mock transport, with one subscription to the property made by
\* a bind and every notify frame it scheduled delivered, the binding holds
\* the module's latest property value.
C34_MockNotifyOrder ==
    (/\ Len(propSubs) = 1
     /\ propSubs[1].active
     /\ NotifyTimers(timers, Power) = 0)
        => value(St, Power) = props["power"]

\* the live subscriptions handleMockSend made for the identity
ActiveSubscriptions(options) ==
    {i \in 1..Len(propSubs) :
        propSubs[i].active /\ BindingKey(propSubs[i].req) = BindingKey(options)}

\* C35: on the mock transport at most one property subscription is active
\* for a binding key.
C35_OneSubscriptionPerKey == Cardinality(ActiveSubscriptions(Power)) <= 1

\* C36: no two records of the pending-request map carry the same request id.
C36_PendingIdsDistinct ==
    \A i, j \in 1..Len(requests) : requests[i].id = requests[j].id => i = j

====
